---- MODULE Spec2Model ----
(***************************************************************************)
(* The tml bytecode virtual machine (src/src/vm.c): a Turing-machine       *)
(* interpreter with a growable one-sided tape of 16-bit symbols, a         *)
(* register file of heap-allocated state values, two scratch stacks and a  *)
(* bounded move loop.  One action per opcode handler of run_move and       *)
(* run_rhs, plus init_tape, run's prologue, run's loop test and cleanup.   *)
(***************************************************************************)
EXTENDS Integers, Sequences, FiniteSets, TLC

\* ------------------------------------------------------------------------
\* Opcodes and capacities (vm.c:9-34)
LEFT == 0
RIGHT == 1
LEFT_N == 2
RIGHT_N == 3
WRITE_ARG == 4
WRITE_VAL == 5
WRITE_BOUND == 6
SYMBOL_ARG == 7
SYMBOL_VAL == 8
SYMBOL_BOUND == 9
TAKE_ARG == 10
CLONE_ARG == 11
FREE_ARG == 12
MAKE_STATE == 13
FINAL_STATE == 14
FINAL_ARG == 15
COMPARE_ARG == 16
COMPARE_VAL == 17
OTHER_ARM == 18
HALT == 19

INTIAL_TAPE_CAPACITY == 256
TAPE_GROWTH_FACTOR == 2

\* ------------------------------------------------------------------------
\* Bounds of the model
\* largest move budget handed to run
MaxMoves == 10
\* number of slots of the register files states[] / symbols[] that are modelled
MaxArgs == 3
\* number of init_tape + run + cleanup rounds one VM goes through
MaxRuns == 2

\* ------------------------------------------------------------------------
\* Little-endian operand encodings, the inverse of next_u16 / next_u32
U16(v) == <<v % 256, (v \div 256) % 256>>
U32(v) == <<v % 256, (v \div 256) % 256, (v \div 65536) % 256, (v \div 16777216) % 256>>

\* the 2 reserved bytes and the 4-byte entry address read by run
Header(entry) == U16(0) \o U32(entry)

\* an arm header followed by its RHS; the skip field is the RHS length
ArmArg(i, rhs) == <<COMPARE_ARG, i>> \o U16(Len(rhs)) \o rhs
ArmVal(v, rhs) == <<COMPARE_VAL>> \o U16(v) \o U16(Len(rhs)) \o rhs
ArmOther(rhs) == <<OTHER_ARM>> \o rhs

\* RHS instructions with operands
OpWriteVal(v) == <<WRITE_VAL>> \o U16(v)
OpSymbolVal(v) == <<SYMBOL_VAL>> \o U16(v)
OpMakeState(k, addr) == <<MAKE_STATE, k>> \o U32(addr)
OpFinalState(addr) == <<FINAL_STATE>> \o U32(addr)

\* the address of the first state: right after the header
Entry == Len(Header(0))

\* ------------------------------------------------------------------------
\* Bytecode programs run by the model.  Symbols: 48 = '0', 49 = '1',
\* 97 = 'a', 98 = 'b', 65 = 'A', 353 = 0x0161 (a symbol with a high byte).

\* README machine: start { '' | '0' | f }  f { '0' | > '1' | f, '1' | > '0' | f }
ReadmeStart(f) == ArmVal(0, OpWriteVal(48) \o OpFinalState(f)) \o <<HALT>>
ReadmeF(f) ==
    ArmVal(48, <<RIGHT>> \o OpWriteVal(49) \o OpFinalState(f))
    \o ArmVal(49, <<RIGHT>> \o OpWriteVal(48) \o OpFinalState(f))
    \o <<HALT>>
ReadmeFAddr == Entry + Len(ReadmeStart(0))
ReadmeMachine == Header(Entry) \o ReadmeStart(ReadmeFAddr) \o ReadmeF(ReadmeFAddr)

\* Alternating-bit machine whose start arm is OTHER: write '0', move right, go to F
AltStart(f) == ArmOther(OpWriteVal(48) \o <<RIGHT>> \o OpFinalState(f))
AltFAddr == Entry + Len(AltStart(0))
AltMachine == Header(Entry) \o AltStart(AltFAddr) \o ReadmeF(AltFAddr)

\* Left-boundary machine: LEFT then FINAL_STATE(start)
LeftMachine == Header(Entry) \o ArmOther(<<LEFT>> \o OpFinalState(Entry))

\* LEFT_N: move right 3, write 'A', step left 2, then step left 5 from position 1
LeftNMachine ==
    Header(Entry)
    \o ArmOther(<<RIGHT_N, 3>> \o OpWriteVal(65) \o <<LEFT_N, 2, LEFT_N, 5>>
                \o OpFinalState(Entry))

\* Tape growth: move right to position 1000, write 'A', go to a HALT state
GrowStart(h) ==
    ArmOther(<<RIGHT_N, 250, RIGHT_N, 250, RIGHT_N, 250, RIGHT_N, 250>>
             \o OpWriteVal(65) \o OpFinalState(h))
GrowHaltAddr == Entry + Len(GrowStart(0))
GrowMachine == Header(Entry) \o GrowStart(GrowHaltAddr) \o <<HALT>>

\* Blank writes: start writes 0 at position 100 and at position 300 and goes to
\* next(; 0); next misses 'A', matches its blank argument and writes it back;
\* last binds the symbol at 300, writes it back, steps left to 256 and writes 'A'
BlankStart(n) ==
    ArmOther(<<RIGHT_N, 100>> \o OpWriteVal(0) \o <<RIGHT_N, 200>> \o OpWriteVal(0)
             \o OpSymbolVal(0) \o OpFinalState(n))
BlankNext(n, l) ==
    ArmVal(65, <<RIGHT>> \o OpFinalState(n)) \o ArmArg(0, <<WRITE_ARG, 0>> \o OpFinalState(l))
BlankLast(h) ==
    ArmOther(<<WRITE_BOUND, LEFT_N, 44>> \o OpWriteVal(65) \o OpFinalState(h))
BlankNextAddr == Entry + Len(BlankStart(0))
BlankLastAddr == BlankNextAddr + Len(BlankNext(0, 0))
BlankHaltAddr == BlankLastAddr + Len(BlankLast(0))
BlankMachine ==
    Header(Entry) \o BlankStart(BlankNextAddr) \o BlankNext(BlankNextAddr, BlankLastAddr)
    \o BlankLast(BlankHaltAddr) \o <<HALT>>

\* Higher-order state: SYMBOL_VAL 'a'; MAKE_STATE 0, target; FINAL_ARG 0.
\* target(; x) { x | 'a' | halt }
HoStart(t) == ArmOther(OpSymbolVal(97) \o OpMakeState(0, t) \o <<FINAL_ARG, 0>>)
HoTarget(h) == ArmArg(0, OpWriteVal(97) \o OpFinalState(h)) \o <<HALT>>
HoTargetAddr == Entry + Len(HoStart(0))
HoHaltAddr == HoTargetAddr + Len(HoTarget(0)) - 1
HoMachine == Header(Entry) \o HoStart(HoTargetAddr) \o HoTarget(HoHaltAddr)

\* README function: match(A, B; x) { x | | A, _ | | B }
\* start { _ | | match(f, g; 'a') }   f {}   g {}
MatchStart(m, f, g) ==
    ArmOther(OpMakeState(0, f) \o OpMakeState(0, g) \o OpSymbolVal(97) \o OpFinalState(m))
MatchFn == ArmArg(0, <<FREE_ARG, 1, FINAL_ARG, 0>>) \o ArmOther(<<FREE_ARG, 0, FINAL_ARG, 1>>)
MatchFnAddr == Entry + Len(MatchStart(0, 0, 0))
MatchFAddr == MatchFnAddr + Len(MatchFn)
MatchGAddr == MatchFAddr + 1
MatchMachine ==
    Header(Entry) \o MatchStart(MatchFnAddr, MatchFAddr, MatchGAddr) \o MatchFn
    \o <<HALT>> \o <<HALT>>

\* Nested state values: start builds w(t(; 0x161, bound)), a clones and takes it,
\* b frees the original and enters the clone, w enters its child t.
\* t(; x, y) { y | x > | h(; y) }
NestStart(t, w, a) ==
    ArmOther(OpSymbolVal(353) \o <<SYMBOL_BOUND>> \o OpMakeState(0, t) \o OpMakeState(1, w)
             \o OpFinalState(a))
NestA(b) == ArmOther(<<CLONE_ARG, 0, TAKE_ARG, 0>> \o OpFinalState(b))
NestB == ArmOther(<<FREE_ARG, 1, FINAL_ARG, 0>>)
NestW == ArmOther(<<FINAL_ARG, 0>>)
NestT(h) == ArmArg(1, <<WRITE_ARG, 0, RIGHT, SYMBOL_ARG, 1>> \o OpFinalState(h)) \o <<HALT>>
NestAAddr == Entry + Len(NestStart(0, 0, 0))
NestBAddr == NestAAddr + Len(NestA(0))
NestWAddr == NestBAddr + Len(NestB)
NestTAddr == NestWAddr + Len(NestW)
NestHAddr == NestTAddr + Len(NestT(0)) - 1
NestMachine ==
    Header(Entry) \o NestStart(NestTAddr, NestWAddr, NestAAddr) \o NestA(NestBAddr)
    \o NestB \o NestW \o NestT(NestHAddr)

\* Left-boundary STOP in the middle of an RHS that has consumed its argument:
\* start { _ | | a(h(; 'a')) }
\* a(S) { 1 | FREE_ARG 0, LEFT | h,  2 | TAKE_ARG 0, LEFT | h,
\*        _ | TAKE_ARG 0, MAKE_STATE 1 h, LEFT | h }
StopStart(a, h) == ArmOther(OpSymbolVal(97) \o OpMakeState(0, h) \o OpFinalState(a))
StopA(h) ==
    ArmVal(1, <<FREE_ARG, 0, LEFT>> \o OpFinalState(h))
    \o ArmVal(2, <<TAKE_ARG, 0, LEFT>> \o OpFinalState(h))
    \o ArmOther(<<TAKE_ARG, 0>> \o OpMakeState(1, h) \o <<LEFT>> \o OpFinalState(h))
StopAAddr == Entry + Len(StopStart(0, 0))
StopHAddr == StopAAddr + Len(StopA(0))
StopMachine ==
    Header(Entry) \o StopStart(StopAAddr, StopHAddr) \o StopA(StopHAddr) \o <<HALT>>

\* A symbol pushed before a LEFT that underruns:
\* start { _ | | a(; 'a') }   a(; x) { _ | x, push 'b', LEFT | a }
JunkStart(a) == ArmOther(OpSymbolVal(97) \o OpFinalState(a))
JunkA(a) == ArmOther(<<WRITE_ARG, 0>> \o OpSymbolVal(98) \o <<LEFT>> \o OpFinalState(a))
JunkAAddr == Entry + Len(JunkStart(0))
JunkMachine == Header(Entry) \o JunkStart(JunkAAddr) \o JunkA(JunkAAddr)

\* MAKE_STATE over a deeper stack: start pushes s1, s2(; 'a'), s3, then 'b' and
\* 0x161, and builds q(s2, s3; 'b', 0x161) above s1.
\* q(S, T) { _ | FREE_ARG 0 | T }   s1, s2, s3 are HALT states
MakeStart(q, h) ==
    ArmOther(OpMakeState(0, h) \o OpSymbolVal(97) \o OpMakeState(0, h + 1)
             \o OpMakeState(0, h + 2) \o OpSymbolVal(98) \o OpSymbolVal(353)
             \o OpMakeState(2, q) \o OpFinalState(q))
MakeQ == ArmOther(<<FREE_ARG, 0, FINAL_ARG, 1>>)
MakeQAddr == Entry + Len(MakeStart(0, 0))
MakeHAddr == MakeQAddr + Len(MakeQ)
MakeMachine ==
    Header(Entry) \o MakeStart(MakeQAddr, MakeHAddr) \o MakeQ \o <<HALT, HALT, HALT>>

ProgramNames ==
    {"readme", "alt", "left", "leftn", "grow", "blank", "ho", "match", "nest", "stop", "junk",
     "make"}

\* the byte buffer handed to run
Program(name) ==
    CASE name = "readme" -> ReadmeMachine
      [] name = "alt" -> AltMachine
      [] name = "left" -> LeftMachine
      [] name = "leftn" -> LeftNMachine
      [] name = "grow" -> GrowMachine
      [] name = "blank" -> BlankMachine
      [] name = "ho" -> HoMachine
      [] name = "match" -> MatchMachine
      [] name = "nest" -> NestMachine
      [] name = "stop" -> StopMachine
      [] name = "junk" -> JunkMachine
      [] name = "make" -> MakeMachine
      [] OTHER -> <<>>

\* programs in which every argument is taken, cloned or freed exactly once on
\* every path and every terminal names a register that holds a state
WellFormed == ProgramNames \ {"ho"}

\* an initial tape longer than the initial capacity
LongTape == [i \in 1..(INTIAL_TAPE_CAPACITY + 4) |-> 97]

In(p, t, m) == [prog |-> p, symbols |-> t, max |-> m]

\* (bytecode, initial tape, max_moves) triples given to init_tape and run
Inputs ==
    {In("readme", <<>>, m) : m \in 0..MaxMoves}
    \cup {In("readme", <<97>>, MaxMoves)}
    \cup {In("alt", <<>>, 0), In("alt", <<>>, 10)}
    \cup {In("left", <<>>, 1000000), In("leftn", <<>>, MaxMoves)}
    \cup {In("grow", <<>>, 2)}
    \cup {In("blank", <<>>, 4), In("blank", LongTape, 4), In("blank", LongTape, 0)}
    \cup {In("ho", <<97>>, 2), In("ho", <<97>>, MaxMoves)}
    \cup {In("match", <<>>, MaxMoves), In("match", <<97>>, MaxMoves)}
    \cup {In("nest", <<>>, MaxMoves), In("nest", <<97>>, MaxMoves)}
    \cup {In("stop", <<>>, MaxMoves), In("stop", <<1>>, MaxMoves),
          In("stop", <<2>>, MaxMoves)}
    \cup {In("junk", <<>>, MaxMoves)}
    \cup {In("make", <<>>, MaxMoves)}

\* a VM is used for a second round only between these inputs
RerunInputs ==
    {i \in Inputs : i.prog \in {"junk", "nest", "left"}} \cup {In("readme", <<>>, 2)}

\* ------------------------------------------------------------------------
\* The VM's state (vm.c:81-106)
VARIABLES
    pc,            \* where the caller / run is: "idle", "ready", "loop", "move",
                   \* "rhs", "returned", "cleaned"
    input,         \* the (bytecode, initial tape, max_moves) of the current round
    tape,          \* the cells tape[0 .. tape_end - tape), as a sequence
    tape_block,    \* the heap block the pointer tape refers to
    tape_head,     \* tape_head - tape
    address,
    states,        \* State states[256], slots 0 .. MaxArgs-1
    state_count,
    symbols,       \* uint16_t symbols[256], slots 0 .. MaxArgs-1
    symbol_count,
    state_stack,   \* state_stack[0 .. state_stack_top - state_stack)
    symbol_stack,  \* symbol_stack[0 .. symbol_stack_top - symbol_stack)
    bytes_start,   \* the byte buffer, by the name of the program
    ip,            \* ip - bytes_start
    max_moves,
    moves,
    bound,
    heap,          \* every block MALLOC / CALLOC / REALLOC returned so far
    heap_error,    \* "none", or the misuse of the allocator that has happened
    cause,         \* why the last run returned: "halt", "left", "budget"
    runs,          \* number of init_tape calls so far
    history        \* the first result observed for each input

vars ==
    <<pc, input, tape, tape_block, tape_head, address, states, state_count, symbols,
      symbol_count, state_stack, symbol_stack, bytes_start, ip, max_moves, moves,
      bound, heap, heap_error, cause, runs, history>>

\* what run's caller fixed, the tape, the current state, the scratch stacks, the heap
callVars == <<input, bytes_start, max_moves, runs>>
tapeVars == <<tape, tape_block, tape_head>>
regVars == <<address, states, state_count, symbols, symbol_count>>
stackVars == <<state_stack, symbol_stack>>
heapVars == <<heap, heap_error>>

STOP == TRUE
CONTINUE == FALSE

\* the value of a pointer field that was never assigned
NoPtr == 0

\* a zero-initialised struct State (the static arrays start zeroed)
ZeroState ==
    [address |-> 0, states |-> NoPtr, state_count |-> 0, symbols |-> NoPtr,
     symbol_count |-> 0]

Slots == 0..(MaxArgs - 1)

\* ------------------------------------------------------------------------
\* The allocator.  A memory is [heap, error]; a block is never reused, so a
\* pointer is the index of its block.
Block(kind, sts, syms) == [kind |-> kind, live |-> TRUE, states |-> sts, symbols |-> syms]

MALLOC(M, kind, sts, syms) == [M EXCEPT !.heap = Append(@, Block(kind, sts, syms))]

\* the pointer the last MALLOC returned
Newest(M) == Len(M.heap)

FREE(M, p) ==
    IF p \in 1..Len(M.heap) /\ M.heap[p].live
    THEN [M EXCEPT !.heap[p].live = FALSE]
    ELSE [M EXCEPT !.error = IF p \in 1..Len(M.heap) THEN "double_free" ELSE "invalid_free"]

Memory == [heap |-> heap, error |-> heap_error]

RECURSIVE free_state(_, _)
RECURSIVE free_children(_, _, _)
RECURSIVE clone_state(_, _)
RECURSIVE clone_children(_, _, _, _)

\* the loop of free_state over state->states[i], from child i on
free_children(M, state, i) ==
    IF i > state.state_count
    THEN M
    ELSE free_children(free_state(M, M.heap[state.states].states[i]), state, i + 1)

free_state(M, state) ==
    LET M1 == IF state.state_count # 0
              THEN FREE(free_children(M, state, 1), state.states)
              ELSE M
    IN  IF state.symbol_count # 0 THEN FREE(M1, state.symbols) ELSE M1

\* the loop of clone_state filling cloned.states (block p), from child i on
clone_children(M, state, p, i) ==
    IF i > state.state_count
    THEN M
    ELSE LET r == clone_state(M, M.heap[state.states].states[i])
         IN  clone_children([r.mem EXCEPT !.heap[p].states = Append(@, r.state)],
                            state, p, i + 1)

\* clone_state that copies the struct only: the copy shares both arrays
clone_state_shallow(M, state) == [mem |-> M, state |-> state]

\* returns the memory after the allocations and the cloned struct
clone_state(M, state) ==
    LET M1 == IF state.state_count # 0 THEN MALLOC(M, "states", <<>>, <<>>) ELSE M
        ps == IF state.state_count # 0 THEN Newest(M1) ELSE NoPtr
        M2 == IF state.state_count # 0 THEN clone_children(M1, state, ps, 1) ELSE M1
        M3 == IF state.symbol_count # 0
              THEN MALLOC(M2, "symbols", <<>>,
                          SubSeq(M2.heap[state.symbols].symbols, 1, state.symbol_count))
              ELSE M2
        py == IF state.symbol_count # 0 THEN Newest(M3) ELSE NoPtr
    IN  [mem |-> M3,
         state |-> [address |-> state.address, states |-> ps,
                    state_count |-> state.state_count, symbols |-> py,
                    symbol_count |-> state.symbol_count]]

\* ------------------------------------------------------------------------
\* Tape (vm.c:162-211)

\* the tape contents init_tape installs
init_tape(syms) ==
    IF Len(syms) < INTIAL_TAPE_CAPACITY
    THEN [i \in 1..INTIAL_TAPE_CAPACITY |-> IF i <= Len(syms) THEN syms[i] ELSE 0]
    ELSE [i \in 1..Len(syms) |-> syms[i]]

\* tape_left that reports STOP but leaves the head where it was
tape_left_no_clamp(head, n) ==
    IF head < n
    THEN [head |-> head, flow |-> STOP]
    ELSE [head |-> head - n, flow |-> CONTINUE]

tape_left(head, n) ==
    IF head < n
    THEN [head |-> 0, flow |-> STOP]
    ELSE [head |-> head - n, flow |-> CONTINUE]

\* tape_right that does not move the head
tape_right_stuck(head, n) == head

\* tape_right that stops at the last allocated cell
tape_right_clamped(head, n) == IF head + n >= Len(tape) THEN Len(tape) - 1 ELSE head + n

tape_right(head, n) == head + n

read_tape(t, head) == IF head >= Len(t) THEN 0 ELSE t[head + 1]

\* write_tape without the test of value: a blank written past the end grows the tape
write_tape_grows_on_blank(t, head, value) ==
    IF head < Len(t)
    THEN [t EXCEPT ![head + 1] = value]
    ELSE [i \in 1..(TAPE_GROWTH_FACTOR * head) |->
            IF i = head + 1 THEN value ELSE IF i <= Len(t) THEN t[i] ELSE 0]

\* write_tape that doubles the old length instead of the head offset
write_tape_doubles_old_len(t, head, value) ==
    IF head < Len(t)
    THEN [t EXCEPT ![head + 1] = value]
    ELSE IF value # 0
         THEN [i \in 1..(TAPE_GROWTH_FACTOR * Len(t)) |->
                 IF i = head + 1 THEN value ELSE IF i <= Len(t) THEN t[i] ELSE 0]
         ELSE t

\* write_tape without the test head < tape_end: every non-blank write reallocates
\* to TAPE_GROWTH_FACTOR * head_offset cells
write_tape_always_realloc(t, head, value) ==
    IF value # 0
    THEN [i \in 1..(TAPE_GROWTH_FACTOR * head) |->
            IF i = head + 1 THEN value ELSE IF i <= Len(t) THEN t[i] ELSE 0]
    ELSE IF head < Len(t) THEN [t EXCEPT ![head + 1] = value] ELSE t

\* the tape contents after write_tape(value)
write_tape(t, head, value) ==
    IF head < Len(t)
    THEN [t EXCEPT ![head + 1] = value]
    ELSE IF value # 0
         THEN LET head_offset == head
                  old_len == Len(t)
                  new_len == TAPE_GROWTH_FACTOR * head_offset
              IN  [i \in 1..new_len |->
                     IF i = head_offset + 1 THEN value
                     ELSE IF i <= old_len THEN t[i] ELSE 0]
         ELSE t

\* write_tape calls REALLOC exactly when the contents change length
Realloc(M, old, t, t2) ==
    IF Len(t2) # Len(t) THEN MALLOC(FREE(M, old), "tape", <<>>, <<>>) ELSE M

\* ------------------------------------------------------------------------
\* Byte cursor (vm.c:213-231)
Code == Program(bytes_start)

\* the byte next() returns when the cursor is at a
ByteAt(a) == Code[a + 1]

\* next_u16 that takes the first byte as the high byte
next_u16_big_endian(a) == 256 * ByteAt(a) + ByteAt(a + 1)

next_u16(a) == ByteAt(a) + 256 * ByteAt(a + 1)

next_u32(a) ==
    ByteAt(a) + 256 * ByteAt(a + 1) + 65536 * ByteAt(a + 2) + 16777216 * ByteAt(a + 3)

\* the opcode the next next() fetches
Opcode == ByteAt(ip)

\* memcpy of nbytes bytes of the uint16_t array src over the uint16_t array dst
\* (slots from 0), low byte first as on a little-endian build
memcpy_u16(dst, src, nbytes) ==
    [k \in DOMAIN dst |->
        LET lo == IF 2 * k < nbytes THEN src[k + 1] % 256 ELSE dst[k] % 256
            hi == IF 2 * k + 1 < nbytes THEN src[k + 1] \div 256 ELSE dst[k] \div 256
        IN  lo + 256 * hi]

\* a copy that pops the n entries of src one by one: the last pushed lands in slot 0
memcpy_states_popped(dst, src, n) == [k \in DOMAIN dst |-> IF k < n THEN src[n - k] ELSE dst[k]]

\* memcpy of n struct State from the sequence src over the array dst
memcpy_states(dst, src, n) == [k \in DOMAIN dst |-> IF k < n THEN src[k + 1] ELSE dst[k]]

\* ------------------------------------------------------------------------
\* What the accessors return after run (vm.c:541-549)
Result(t, head, addr, m) == [tape |-> t, head |-> head, address |-> addr, moves |-> m]

Record(res) ==
    IF \E h \in history : h.input = input THEN history
    ELSE history \cup {[input |-> input, result |-> res]}

TypeOK ==
    /\ pc \in {"idle", "ready", "loop", "move", "rhs", "returned", "cleaned"}
    /\ tape_head \in Nat
    /\ moves \in Nat
    /\ state_count \in Nat
    /\ symbol_count \in Nat
    /\ DOMAIN states = Slots
    /\ DOMAIN symbols = Slots
    /\ \A k \in Slots : symbols[k] \in 0..65535
    /\ \A i \in 1..Len(tape) : tape[i] \in 0..65535
    /\ bound \in 0..65535

Init ==
    /\ pc = "idle"
    /\ input = In("none", <<>>, 0)
    /\ tape = <<>>
    /\ tape_block = NoPtr
    /\ tape_head = 0
    /\ address = 0
    /\ states = [k \in Slots |-> ZeroState]
    /\ state_count = 0
    /\ symbols = [k \in Slots |-> 0]
    /\ symbol_count = 0
    /\ state_stack = <<>>
    /\ symbol_stack = <<>>
    /\ bytes_start = "none"
    /\ ip = 0
    /\ max_moves = 0
    /\ moves = 0
    /\ bound = 0
    /\ heap = <<>>
    /\ heap_error = "none"
    /\ cause = "none"
    /\ runs = 0
    /\ history = {}

\* ------------------------------------------------------------------------
\* init_tape(symbols, len), on a new VM or after cleanup
InitTape ==
    /\ pc \in {"idle", "cleaned"}
    /\ heap_error = "none"
    /\ runs < MaxRuns
    /\ runs > 0 => input \in RerunInputs
    /\ \E i \in (IF runs = 0 THEN Inputs ELSE RerunInputs) :
        /\ input' = i
        /\ tape' = init_tape(i.symbols)
    /\ heap' = MALLOC(Memory, "tape", <<>>, <<>>).heap
    /\ tape_block' = Len(heap) + 1
    /\ tape_head' = 0
    /\ runs' = runs + 1
    /\ pc' = "ready"
    /\ cause' = "none"
    /\ UNCHANGED <<address, states, state_count, symbols, symbol_count, state_stack,
                   symbol_stack, bytes_start, ip, max_moves, moves, bound, heap_error,
                   history>>

\* run(bytes, max_moves_) up to its loop (vm.c:521-531)
Run ==
    /\ pc = "ready"
    /\ bytes_start' = input.prog
    /\ max_moves' = input.max
    /\ moves' = 0
    /\ state_count' = 0
    /\ symbol_count' = 0
    /\ address' = next_u32(2)'
    /\ ip' = address'
    /\ pc' = "loop"
    /\ UNCHANGED <<input, tape, tape_block, tape_head, states, symbols, state_stack,
                   symbol_stack, bound, heap, heap_error, cause, runs, history>>

\* the loop test written moves <= max_moves
RunLoopEnter_off_by_one ==
    /\ pc = "loop"
    /\ moves <= max_moves
    /\ pc' = "move"
    /\ UNCHANGED <<input, tape, tape_block, tape_head, address, states, state_count,
                   symbols, symbol_count, state_stack, symbol_stack, bytes_start, ip,
                   max_moves, moves, bound, heap, heap_error, cause, runs, history>>

\* while (moves < max_moves): the test succeeds and run_move is called
RunLoopEnter ==
    /\ pc = "loop"
    /\ moves < max_moves
    /\ pc' = "move"
    /\ UNCHANGED <<input, tape, tape_block, tape_head, address, states, state_count,
                   symbols, symbol_count, state_stack, symbol_stack, bytes_start, ip,
                   max_moves, moves, bound, heap, heap_error, cause, runs, history>>

\* while (moves < max_moves): the test fails and run returns
RunLoopExit ==
    /\ pc = "loop"
    /\ ~(moves < max_moves)
    /\ pc' = "returned"
    /\ cause' = "budget"
    /\ history' = Record(Result(tape, tape_head, address, moves))
    /\ UNCHANGED <<input, tape, tape_block, tape_head, address, states, state_count,
                   symbols, symbol_count, state_stack, symbol_stack, bytes_start, ip,
                   max_moves, moves, bound, heap, heap_error, runs>>

\* ------------------------------------------------------------------------
\* run_move (vm.c:488-519): one action per arm header

\* COMPARE_ARG with the comparison inverted
CompareArg_inverted ==
    /\ pc = "move"
    /\ Opcode = COMPARE_ARG
    /\ LET arg_index == ByteAt(ip + 1)
       IN  IF read_tape(tape, tape_head) # symbols[arg_index]
           THEN ip' = ip + 4 /\ pc' = "rhs"
           ELSE ip' = ip + 4 + next_u16(ip + 2) /\ pc' = "move"
    /\ UNCHANGED <<callVars, tapeVars, regVars, stackVars, heapVars, moves, bound,
                   cause, history>>

CompareArg ==
    /\ pc = "move"
    /\ Opcode = COMPARE_ARG
    /\ LET arg_index == ByteAt(ip + 1)
       IN  IF read_tape(tape, tape_head) = symbols[arg_index]
           THEN ip' = ip + 4 /\ pc' = "rhs"
           ELSE ip' = ip + 4 + next_u16(ip + 2) /\ pc' = "move"
    /\ UNCHANGED <<callVars, tapeVars, regVars, stackVars, heapVars, moves, bound,
                   cause, history>>

\* COMPARE_VAL whose miss goes back to the first arm of the state instead of
\* skipping the RHS
CompareVal_miss_rewinds ==
    /\ pc = "move"
    /\ Opcode = COMPARE_VAL
    /\ IF next_u16(ip + 1) = read_tape(tape, tape_head)
       THEN ip' = ip + 5 /\ pc' = "rhs"
       ELSE ip' = address /\ pc' = "move"
    /\ UNCHANGED <<callVars, tapeVars, regVars, stackVars, heapVars, moves, bound,
                   cause, history>>

CompareVal ==
    /\ pc = "move"
    /\ Opcode = COMPARE_VAL
    /\ IF next_u16(ip + 1) = read_tape(tape, tape_head)
       THEN ip' = ip + 5 /\ pc' = "rhs"
       ELSE ip' = ip + 5 + next_u16(ip + 3) /\ pc' = "move"
    /\ UNCHANGED <<callVars, tapeVars, regVars, stackVars, heapVars, moves, bound,
                   cause, history>>

Other ==
    /\ pc = "move"
    /\ Opcode = OTHER_ARM
    /\ bound' = read_tape(tape, tape_head)
    /\ ip' = ip + 1
    /\ pc' = "rhs"
    /\ UNCHANGED <<callVars, tapeVars, regVars, stackVars, heapVars, moves, cause,
                   history>>

\* HALT counted as a move: run increments moves before it leaves the loop
Halt_counts_move ==
    /\ pc = "move"
    /\ Opcode = HALT
    /\ ip' = ip + 1
    /\ pc' = "returned"
    /\ cause' = "halt"
    /\ moves' = moves + 1
    /\ history' = Record(Result(tape, tape_head, address, moves + 1))
    /\ UNCHANGED <<callVars, tapeVars, regVars, stackVars, heapVars, bound>>

\* HALT: run_move returns STOP and run breaks out of its loop
Halt ==
    /\ pc = "move"
    /\ Opcode = HALT
    /\ ip' = ip + 1
    /\ pc' = "returned"
    /\ cause' = "halt"
    /\ history' = Record(Result(tape, tape_head, address, moves))
    /\ UNCHANGED <<callVars, tapeVars, regVars, stackVars, heapVars, moves, bound>>

\* run_move with a default case that returns STOP
NoArm_returns_stop ==
    /\ pc = "move"
    /\ Opcode \notin {COMPARE_ARG, COMPARE_VAL, OTHER_ARM, HALT}
    /\ ip' = ip + 1
    /\ pc' = "returned"
    /\ cause' = "halt"
    /\ history' = Record(Result(tape, tape_head, address, moves))
    /\ UNCHANGED <<callVars, tapeVars, regVars, stackVars, heapVars, moves, bound>>

\* a byte that is no arm header: the switch falls through and the loop goes on
NoArm ==
    /\ pc = "move"
    /\ Opcode \notin {COMPARE_ARG, COMPARE_VAL, OTHER_ARM, HALT}
    /\ ip' = ip + 1
    /\ UNCHANGED <<pc, callVars, tapeVars, regVars, stackVars, heapVars, moves, bound,
                   cause, history>>

\* ------------------------------------------------------------------------
\* run_rhs (vm.c:359-484): one action per opcode

\* LEFT / LEFT_N that reset both scratch stack tops when tape_left returns STOP
DoLeft_drains(n, len) ==
    LET r == tape_left(tape_head, n)
    IN  /\ tape_head' = r.head
        /\ ip' = ip + len
        /\ IF r.flow = STOP
           THEN /\ pc' = "returned"
                /\ cause' = "left"
                /\ history' = Record(Result(tape, r.head, address, moves))
                /\ state_stack' = <<>>
                /\ symbol_stack' = <<>>
           ELSE /\ pc' = "rhs"
                /\ UNCHANGED <<cause, history, stackVars>>
        /\ UNCHANGED <<callVars, tape, tape_block, regVars, heapVars, moves, bound>>

\* LEFT / LEFT_N: tape_left(n); on STOP run_rhs and run_move return STOP and run
\* breaks out of its loop without moves++
DoLeft(n, len) ==
    LET r == tape_left(tape_head, n)
    IN  /\ tape_head' = r.head
        /\ ip' = ip + len
        /\ IF r.flow = STOP
           THEN /\ pc' = "returned"
                /\ cause' = "left"
                /\ history' = Record(Result(tape, r.head, address, moves))
           ELSE /\ pc' = "rhs"
                /\ UNCHANGED <<cause, history>>
        /\ UNCHANGED <<callVars, tape, tape_block, regVars, stackVars, heapVars, moves,
                       bound>>

Left ==
    /\ pc = "rhs"
    /\ Opcode = LEFT
    /\ DoLeft(1, 1)

LeftN ==
    /\ pc = "rhs"
    /\ Opcode = LEFT_N
    /\ DoLeft(ByteAt(ip + 1), 2)

DoRight(n, len) ==
    /\ tape_head' = tape_right(tape_head, n)
    /\ ip' = ip + len
    /\ UNCHANGED <<pc, callVars, tape, tape_block, regVars, stackVars, heapVars, moves,
                   bound, cause, history>>

Right ==
    /\ pc = "rhs"
    /\ Opcode = RIGHT
    /\ DoRight(1, 1)

RightN ==
    /\ pc = "rhs"
    /\ Opcode = RIGHT_N
    /\ DoRight(ByteAt(ip + 1), 2)

\* write_tape(value), with the REALLOC it may perform
DoWrite(value, len) ==
    /\ tape' = write_tape(tape, tape_head, value)
    /\ LET M == Realloc(Memory, tape_block, tape, tape')
       IN  /\ heap' = M.heap
           /\ heap_error' = M.error
           /\ tape_block' = IF Len(tape') # Len(tape) THEN Newest(M) ELSE tape_block
    /\ ip' = ip + len
    /\ UNCHANGED <<pc, callVars, tape_head, regVars, stackVars, moves, bound, cause,
                   history>>

WriteArg ==
    /\ pc = "rhs"
    /\ Opcode = WRITE_ARG
    /\ DoWrite(symbols[ByteAt(ip + 1)], 2)

WriteVal ==
    /\ pc = "rhs"
    /\ Opcode = WRITE_VAL
    /\ DoWrite(next_u16(ip + 1), 3)

WriteBound ==
    /\ pc = "rhs"
    /\ Opcode = WRITE_BOUND
    /\ DoWrite(bound, 1)

push_symbol(value, len) ==
    /\ symbol_stack' = Append(symbol_stack, value)
    /\ ip' = ip + len
    /\ UNCHANGED <<pc, callVars, tapeVars, regVars, state_stack, heapVars, moves, bound,
                   cause, history>>

SymbolArg ==
    /\ pc = "rhs"
    /\ Opcode = SYMBOL_ARG
    /\ push_symbol(symbols[ByteAt(ip + 1)], 2)

SymbolVal ==
    /\ pc = "rhs"
    /\ Opcode = SYMBOL_VAL
    /\ push_symbol(next_u16(ip + 1), 3)

SymbolBound ==
    /\ pc = "rhs"
    /\ Opcode = SYMBOL_BOUND
    /\ push_symbol(bound, 1)

TakeArg ==
    /\ pc = "rhs"
    /\ Opcode = TAKE_ARG
    /\ state_stack' = Append(state_stack, states[ByteAt(ip + 1)])
    /\ ip' = ip + 2
    /\ UNCHANGED <<pc, callVars, tapeVars, regVars, symbol_stack, heapVars, moves,
                   bound, cause, history>>

CloneArg ==
    /\ pc = "rhs"
    /\ Opcode = CLONE_ARG
    /\ LET r == clone_state(Memory, states[ByteAt(ip + 1)])
       IN  /\ heap' = r.mem.heap
           /\ heap_error' = r.mem.error
           /\ state_stack' = Append(state_stack, r.state)
    /\ ip' = ip + 2
    /\ UNCHANGED <<pc, callVars, tapeVars, regVars, symbol_stack, moves, bound, cause,
                   history>>

FreeArg ==
    /\ pc = "rhs"
    /\ Opcode = FREE_ARG
    /\ LET M == free_state(Memory, states[ByteAt(ip + 1)])
       IN  /\ heap' = M.heap
           /\ heap_error' = M.error
    /\ ip' = ip + 2
    /\ UNCHANGED <<pc, callVars, tapeVars, regVars, stackVars, moves, bound, cause,
                   history>>

\* MAKE_STATE that copies its children from the base of the state scratch
\* instead of from the lowered top
MakeState_from_base ==
    /\ pc = "rhs"
    /\ Opcode = MAKE_STATE
    /\ LET args == ByteAt(ip + 1)
           addr == next_u32(ip + 2)
           nsym == Len(symbol_stack)
           rest == SubSeq(state_stack, 1, Len(state_stack) - args)
           kids == SubSeq(state_stack, 1, args)
           M1 == IF args # 0 THEN MALLOC(Memory, "states", kids, <<>>) ELSE Memory
           ps == IF args # 0 THEN Newest(M1) ELSE NoPtr
           M2 == IF nsym # 0 THEN MALLOC(M1, "symbols", <<>>, symbol_stack) ELSE M1
           py == IF nsym # 0 THEN Newest(M2) ELSE NoPtr
           state == [address |-> addr, states |-> ps, state_count |-> args,
                     symbols |-> py, symbol_count |-> nsym]
       IN  /\ heap' = M2.heap
           /\ heap_error' = M2.error
           /\ state_stack' = Append(rest, state)
           /\ symbol_stack' = <<>>
    /\ ip' = ip + 6
    /\ UNCHANGED <<pc, callVars, tapeVars, regVars, moves, bound, cause, history>>

MakeState ==
    /\ pc = "rhs"
    /\ Opcode = MAKE_STATE
    /\ LET args == ByteAt(ip + 1)
           addr == next_u32(ip + 2)
           nsym == Len(symbol_stack)
           rest == SubSeq(state_stack, 1, Len(state_stack) - args)
           kids == SubSeq(state_stack, Len(state_stack) - args + 1, Len(state_stack))
           M1 == IF args # 0 THEN MALLOC(Memory, "states", kids, <<>>) ELSE Memory
           ps == IF args # 0 THEN Newest(M1) ELSE NoPtr
           M2 == IF nsym # 0 THEN MALLOC(M1, "symbols", <<>>, symbol_stack) ELSE M1
           py == IF nsym # 0 THEN Newest(M2) ELSE NoPtr
           state == [address |-> addr, states |-> ps, state_count |-> args,
                     symbols |-> py, symbol_count |-> nsym]
       IN  /\ heap' = M2.heap
           /\ heap_error' = M2.error
           /\ state_stack' = Append(rest, state)
           /\ symbol_stack' = <<>>
    /\ ip' = ip + 6
    /\ UNCHANGED <<pc, callVars, tapeVars, regVars, moves, bound, cause, history>>

\* a terminal returns CONTINUE: run does moves++ and goes back to its loop test
FinalState ==
    /\ pc = "rhs"
    /\ Opcode = FINAL_STATE
    /\ address' = next_u32(ip + 1)
    /\ state_count' = Len(state_stack)
    /\ symbol_count' = Len(symbol_stack)
    /\ states' = memcpy_states(states, state_stack, Len(state_stack))
    /\ state_stack' = <<>>
    /\ symbols' = memcpy_u16(symbols, symbol_stack, 2 * Len(symbol_stack))
    /\ symbol_stack' = <<>>
    /\ ip' = address'
    /\ moves' = moves + 1
    /\ pc' = "loop"
    /\ UNCHANGED <<callVars, tapeVars, heapVars, bound, cause, history>>

FinalArg ==
    /\ pc = "rhs"
    /\ Opcode = FINAL_ARG
    /\ LET state == states[ByteAt(ip + 1)]
           M1 == IF state.state_count # 0 THEN FREE(Memory, state.states) ELSE Memory
           M2 == IF state.symbol_count # 0 THEN FREE(M1, state.symbols) ELSE M1
       IN  /\ address' = state.address
           /\ state_count' = state.state_count
           /\ states' = IF state.state_count # 0
                        THEN memcpy_states(states, heap[state.states].states,
                                           state.state_count)
                        ELSE states
           /\ symbol_count' = state.symbol_count
           /\ symbols' = IF state.symbol_count # 0
                         THEN memcpy_u16(symbols, heap[state.symbols].symbols,
                                         state.symbol_count)
                         ELSE symbols
           /\ heap' = M2.heap
           /\ heap_error' = M2.error
    /\ ip' = address'
    /\ moves' = moves + 1
    /\ pc' = "loop"
    /\ UNCHANGED <<callVars, tapeVars, stackVars, bound, cause, history>>

\* ------------------------------------------------------------------------
\* cleanup (vm.c:551-556)
RECURSIVE cleanup_states(_, _)
cleanup_states(M, i) ==
    IF i >= state_count THEN M ELSE cleanup_states(free_state(M, states[i]), i + 1)

Cleanup ==
    /\ pc = "returned"
    /\ LET M == cleanup_states(FREE(Memory, tape_block), 0)
       IN  /\ heap' = M.heap
           /\ heap_error' = M.error
    /\ pc' = "cleaned"
    /\ UNCHANGED <<callVars, tapeVars, regVars, stackVars, ip, moves, bound, cause,
                   history>>

Next ==
    \/ InitTape
    \/ Run
    \/ RunLoopEnter
    \/ RunLoopExit
    \/ CompareArg
    \/ CompareVal
    \/ Other
    \/ Halt
    \/ NoArm
    \/ Left
    \/ LeftN
    \/ Right
    \/ RightN
    \/ WriteArg
    \/ WriteVal
    \/ WriteBound
    \/ SymbolArg
    \/ SymbolVal
    \/ SymbolBound
    \/ TakeArg
    \/ CloneArg
    \/ FreeArg
    \/ MakeState
    \/ FinalState
    \/ FinalArg
    \/ Cleanup

Spec == Init /\ [][Next]_vars

\* the steps of one call of run: its prologue, its loop test, run_move, run_rhs
RunStep ==
    \/ Run
    \/ RunLoopEnter
    \/ RunLoopExit
    \/ CompareArg
    \/ CompareVal
    \/ Other
    \/ Halt
    \/ NoArm
    \/ Left
    \/ LeftN
    \/ Right
    \/ RightN
    \/ WriteArg
    \/ WriteVal
    \/ WriteBound
    \/ SymbolArg
    \/ SymbolVal
    \/ SymbolBound
    \/ TakeArg
    \/ CloneArg
    \/ FreeArg
    \/ MakeState
    \/ FinalState
    \/ FinalArg

\* run is sequential code: once called, it keeps executing until it returns
FairSpec == Spec /\ WF_vars(RunStep)

\* ========================================================================
\* Properties

\* cell p of the tape, blank past the end
Cell(p) == IF p < Len(tape) THEN tape[p + 1] ELSE 0

\* run has returned (and cleanup may have run since)
Returned == pc \in {"returned", "cleaned"}

\* cells 0 .. n-1 hold '0', '1', '0', '1', ...
Alternating(n) == \A p \in 0..(n - 1) : Cell(p) = IF p % 2 = 0 THEN 48 ELSE 49

\* C1: the move count never exceeds max_moves; with max_moves = 0 run_move is
\* never entered and run returns with the tape as init_tape left it, the head at
\* 0 and a move count of 0.
C1_MoveCountBound ==
    /\ moves <= max_moves
    /\ max_moves = 0 => pc \notin {"move", "rhs"}
    /\ (Returned /\ max_moves = 0) =>
          /\ moves = 0
          /\ tape_head = 0
          /\ Len(tape) = IF Len(input.symbols) < INTIAL_TAPE_CAPACITY
                          THEN INTIAL_TAPE_CAPACITY
                          ELSE Len(input.symbols)
          /\ \A p \in 0..(Len(tape) - 1) :
                Cell(p) = IF p < Len(input.symbols) THEN input.symbols[p + 1] ELSE 0

\* run returned with an exhausted budget of 0 on the OTHER-arm alternating machine
C1_Witness ==
    /\ pc = "returned"
    /\ cause = "budget"
    /\ bytes_start = "alt"
    /\ max_moves = 0
    /\ moves = 0

\* the operand n of the LEFT / LEFT_N about to execute
LeftOperand == IF Opcode = LEFT THEN 1 ELSE ByteAt(ip + 1)

\* C2: a LEFT or LEFT_N n executed with the head at a position < n sets the head
\* to 0 and makes run return at once: no further opcode runs (registers, scratch
\* stacks, tape, heap and address stay as they are) and moves is not incremented.
C2_LeftBoundary ==
    [][(pc = "rhs" /\ Opcode \in {LEFT, LEFT_N} /\ tape_head < LeftOperand) =>
          /\ tape_head' = 0
          /\ pc' = "returned"
          /\ cause' = "left"
          /\ moves' = moves
          /\ UNCHANGED <<tape, regVars, stackVars, heapVars, bound>>]_vars

\* run returned because LEFT_N 5 was executed at position 1, after one LEFT_N
\* that did not underrun
C2_Witness ==
    /\ pc = "returned"
    /\ cause = "left"
    /\ bytes_start = "leftn"
    /\ tape_head = 0
    /\ moves = 0
    /\ Cell(3) = 65

\* C3: the README machine on an empty tape with max_moves = n >= 1 ends by
\* budget exhaustion after n moves with the head at n - 1 and cells 0 .. n-1
\* alternating '0', '1', ...
C3_ReadmeMachine ==
    (Returned /\ bytes_start = "readme" /\ input.symbols = <<>> /\ max_moves >= 1) =>
        /\ cause = "budget"
        /\ moves = max_moves
        /\ tape_head = max_moves - 1
        /\ Alternating(max_moves)

\* the README run with -m 10 has returned
C3_Witness ==
    /\ pc = "returned"
    /\ bytes_start = "readme"
    /\ max_moves = 10
    /\ moves = 10
    /\ tape_head = 9

\* C4 as stated: the OTHER-arm alternating machine, run on an empty tape with
\* max_moves = 10, returns with cells 0 .. 9 alternating, the head at 9 and a
\* move count of 10.
C4_AsStated ==
    (Returned /\ input = In("alt", <<>>, 10)) =>
        /\ moves = 10
        /\ tape_head = 9
        /\ Alternating(10)

\* C4 amended: that run halts in F after one move, F finding a blank under the
\* head at position 1: cell 0 holds '0', every other cell is blank, the head is
\* at 1 and the move count is 1.
C4_HaltsAfterOneMove ==
    (Returned /\ input = In("alt", <<>>, 10)) =>
        /\ cause = "halt"
        /\ moves = 1
        /\ tape_head = 1
        /\ Cell(0) = 48
        /\ \A p \in 1..(Len(tape) - 1) : Cell(p) = 0

\* the run of the OTHER-arm alternating machine with max_moves = 10 has returned
C4_Witness ==
    /\ pc = "returned"
    /\ input = In("alt", <<>>, 10)
    /\ cause = "halt"

\* what the accessors return now
Observed == Result(tape, tape_head, address, moves)

\* C5: two executions of init_tape + run with the same bytecode, initial tape and
\* max_moves end with the same tape, head position, final address and move
\* count, also when the later one follows an earlier run in the same VM.
C5_Determinism ==
    pc = "returned" => \A h \in history : h.input = input => h.result = Observed

\* every block the VM allocated has been freed
AllFreed == \A b \in 1..Len(heap) : ~heap[b].live

\* C6: after cleanup following a run of a well-formed program, whatever ended
\* the run, every block allocated by the VM has been freed.
C6_LeakFree == (pc = "cleaned" /\ bytes_start \in WellFormed) => AllFreed

\* C7: cleanup after a run of a well-formed program, whatever ended the run,
\* frees no block twice.
C7_CleanupSafe == (pc = "cleaned" /\ bytes_start \in WellFormed) => heap_error = "none"

\* the value the write opcode at ip is about to hand to write_tape
WriteOperand ==
    CASE Opcode = WRITE_ARG -> symbols[ByteAt(ip + 1)]
      [] Opcode = WRITE_VAL -> next_u16(ip + 1)
      [] OTHER -> bound

AtWrite == pc = "rhs" /\ Opcode \in {WRITE_ARG, WRITE_VAL, WRITE_BOUND}

PastEnd == tape_head >= Len(tape)

\* C8: with the head at a position >= the tape length, a read returns 0 (OTHER
\* binds 0, a COMPARE arm matches exactly when its pattern is 0) and a write of 0
\* is a no-op; neither changes the tape length, any cell, or the head position.
C8_BlankSemantics ==
    [][PastEnd =>
          /\ (pc = "move" /\ Opcode = OTHER_ARM) => bound' = 0
          /\ (pc = "move" /\ Opcode = COMPARE_VAL) =>
                ((pc' = "rhs") <=> (next_u16(ip + 1) = 0))
          /\ (pc = "move" /\ Opcode = COMPARE_ARG) =>
                ((pc' = "rhs") <=> (symbols[ByteAt(ip + 1)] = 0))
          /\ pc = "move" => UNCHANGED <<tapeVars, heapVars>>
          /\ (AtWrite /\ WriteOperand = 0) => UNCHANGED <<tapeVars, heapVars>>]_vars

\* in the blank-write machine, with the head at 300 past the end of the tape, a
\* COMPARE_VAL arm has missed, a COMPARE_ARG arm has matched its blank argument
\* and written it, and the OTHER arm has bound the blank and written it back
C8_Witness ==
    /\ pc = "rhs"
    /\ bytes_start = "blank"
    /\ PastEnd
    /\ tape_head = 300
    /\ moves = 2
    /\ bound = 0
    /\ Opcode = LEFT_N

\* C9: a write of a non-blank value v with the head at p >= the tape length grows
\* the tape: afterwards p is in range, cell p holds v, the head is still at p,
\* every old cell keeps its value and every other new cell is 0.  Moving right
\* to 1000 on an empty tape and writing 'A' gives a tape of at least 1001 cells
\* with 'A' at 1000 and 0 elsewhere, after one move.
C9_Growth ==
    /\ [][(AtWrite /\ WriteOperand # 0 /\ PastEnd) =>
             /\ tape_head' = tape_head
             /\ tape_head < Len(tape')
             /\ tape'[tape_head + 1] = WriteOperand
             /\ \A i \in 1..Len(tape) : tape'[i] = tape[i]
             /\ \A i \in (Len(tape) + 1)..Len(tape') :
                   i # tape_head + 1 => tape'[i] = 0]_vars
    /\ [](Returned /\ bytes_start = "grow" =>
             /\ Len(tape) >= 1001
             /\ tape_head = 1000
             /\ moves = 1
             /\ \A p \in 0..(Len(tape) - 1) : Cell(p) = IF p = 1000 THEN 65 ELSE 0)

\* the growth machine has written 'A' at position 1000 and halted
C9_Witness ==
    /\ pc = "returned"
    /\ bytes_start = "grow"
    /\ cause = "halt"
    /\ Len(tape) > INTIAL_TAPE_CAPACITY
    /\ Cell(1000) = 65

InRun == pc \in {"loop", "move", "rhs"}

\* C10: no step of run makes the tape shorter, and during and after run the tape
\* is never shorter than init_tape made it.
C10_LengthMonotone ==
    /\ [][InRun => Len(tape') >= Len(tape)]_vars
    /\ [](InRun \/ Returned => Len(tape) >= Len(init_tape(input.symbols)))

\* a run has grown the tape by a write at position 256 and returned
C10_Witness ==
    /\ pc = "returned"
    /\ bytes_start = "blank"
    /\ Len(tape) > Len(init_tape(input.symbols))
    /\ Cell(256) = 65

\* the opcode that has just been executed is a HALT arm header
AfterHalt == ip >= 1 /\ ByteAt(ip - 1) = HALT

\* C11: once called, run eventually returns, and it returns because a HALT arm
\* was reached, because a LEFT / LEFT_N underran the left boundary (head at 0),
\* or because moves reached max_moves; every move ends either in such a STOP or
\* in a terminal opcode, FINAL_STATE or FINAL_ARG, after which moves is one more.
C11_Termination ==
    /\ (pc = "ready") ~> (pc = "returned")
    /\ [](pc = "returned" =>
            \/ cause = "halt" /\ AfterHalt /\ moves < max_moves
            \/ cause = "left" /\ tape_head = 0 /\ moves < max_moves
            \/ cause = "budget" /\ moves = max_moves)
    /\ [][(pc \in {"move", "rhs"} /\ pc' \notin {"move", "rhs"}) =>
             \/ pc' = "returned" /\ cause' \in {"halt", "left"} /\ moves' = moves
             \/ /\ pc' = "loop"
                /\ Opcode \in {FINAL_STATE, FINAL_ARG}
                /\ moves' = moves + 1]_vars

\* the README match machine has reached a HALT arm after FINAL_STATE and
\* FINAL_ARG moves
C11_Witness ==
    /\ pc = "returned"
    /\ cause = "halt"
    /\ bytes_start = "match"
    /\ moves = 2

\* the run of spec scenario 4: the higher-order machine on the tape ['a']
HoRun == input = In("ho", <<97>>, 2)

\* C12 as stated: in scenario 4 the move after FINAL_ARG 0 runs at addr_target
\* with symbol_args = ['a'], and the run halts within 2 moves with the tape
\* unchanged and the head at 0.
C12_AsStated ==
    /\ (HoRun /\ pc = "loop" /\ moves = 1) =>
          /\ address = HoTargetAddr
          /\ symbol_count = 1
          /\ symbols[0] = 97
    /\ (HoRun /\ Returned) =>
          /\ cause = "halt"
          /\ moves <= 2
          /\ tape = init_tape(<<97>>)
          /\ tape_head = 0

\* C12 amended: FINAL_ARG 0 takes argument register 0, which in the entry state
\* is the zeroed register and not the state MAKE_STATE built; the state built
\* stays on the state scratch, the next move runs from address 0 without
\* arguments, and the run ends by budget after 2 moves at address 0 with the
\* tape unchanged and the head at 0, never having entered addr_target.
C12_HoTakesRegister ==
    /\ (HoRun /\ InRun) => ip # HoTargetAddr
    /\ (HoRun /\ pc = "loop" /\ moves >= 1) =>
          /\ address = 0
          /\ state_count = 0
          /\ symbol_count = 0
          /\ Len(state_stack) = moves
          /\ \A k \in 1..Len(state_stack) :
                /\ state_stack[k].address = HoTargetAddr
                /\ state_stack[k].symbol_count = 1
                /\ heap[state_stack[k].symbols].symbols = <<97>>
    /\ (HoRun /\ Returned) =>
          /\ cause = "budget"
          /\ moves = 2
          /\ address = 0
          /\ tape = init_tape(<<97>>)
          /\ tape_head = 0

\* scenario 4 has returned after its second move
C12_Witness ==
    /\ HoRun
    /\ pc = "returned"
    /\ moves = 2
    /\ Len(state_stack) = 2

\* the state FINAL_ARG is about to install, its children and its symbols
ArgState == states[ByteAt(ip + 1)]
ArgChildren == IF ArgState.state_count # 0 THEN heap[ArgState.states].states ELSE <<>>
ArgSymbols == IF ArgState.symbol_count # 0 THEN heap[ArgState.symbols].symbols ELSE <<>>

\* C13: FINAL_ARG i installs S = state_args[i]: afterwards address and the
\* instruction pointer are S.address, state_args[0..state_count) are S.children
\* in order and symbol_args[k] is the full 16-bit S.symbols[k] for every
\* k < symbol_count = |S.symbols|: the registers FINAL_STATE S.address would
\* leave when run on scratch stacks holding S.children and S.symbols.
C13_FinalArgInstalls ==
    [][(pc = "rhs" /\ Opcode = FINAL_ARG) =>
          /\ address' = ArgState.address
          /\ ip' = ArgState.address
          /\ state_count' = Len(ArgChildren)
          /\ symbol_count' = Len(ArgSymbols)
          /\ \A k \in 0..(Len(ArgChildren) - 1) : states'[k] = ArgChildren[k + 1]
          /\ \A k \in 0..(Len(ArgSymbols) - 1) : symbols'[k] = ArgSymbols[k + 1]
          /\ states' = memcpy_states(states, ArgChildren, Len(ArgChildren))
          /\ symbols' = memcpy_u16(symbols, ArgSymbols, 2 * Len(ArgSymbols))]_vars

\* C14: FINAL_STATE addr leaves address = addr, state_args[0..state_count) the
\* whole state scratch in push order, symbol_args[0..symbol_count) the whole
\* symbol scratch in push order, both scratch stacks empty, the instruction
\* pointer at addr and the tape and head unchanged; it returns CONTINUE, so run
\* counts the move and goes back to its loop test.
C14_FinalState ==
    [][(pc = "rhs" /\ Opcode = FINAL_STATE) =>
          /\ address' = next_u32(ip + 1)
          /\ ip' = next_u32(ip + 1)
          /\ state_count' = Len(state_stack)
          /\ \A k \in 0..(Len(state_stack) - 1) : states'[k] = state_stack[k + 1]
          /\ symbol_count' = Len(symbol_stack)
          /\ \A k \in 0..(Len(symbol_stack) - 1) : symbols'[k] = symbol_stack[k + 1]
          /\ state_stack' = <<>>
          /\ symbol_stack' = <<>>
          /\ UNCHANGED tapeVars
          /\ pc' = "loop"
          /\ moves' = moves + 1]_vars

\* the start state of the README match machine has executed FINAL_STATE with
\* the states f, g and the symbol 'a' on the scratch stacks
C14_Witness ==
    /\ pc = "loop"
    /\ bytes_start = "match"
    /\ moves = 1
    /\ address = MatchFnAddr
    /\ state_count = 2
    /\ states[0].address = MatchFAddr
    /\ states[1].address = MatchGAddr
    /\ symbol_count = 1
    /\ symbols[0] = 97
    /\ state_stack = <<>>
    /\ symbol_stack = <<>>

\* the operands and the stack depth of the MAKE_STATE about to execute
MakeK == ByteAt(ip + 1)
MakeD == Len(state_stack)

\* C15: MAKE_STATE k, addr on a state scratch of depth d >= k leaves depth
\* d - k + 1 with the lowest d - k entries unchanged; the top entry is a new
\* state with address addr, the former top k entries as children in push order
\* and the whole former symbol scratch as symbols in push order; the symbol
\* scratch is empty; tape, head, address and argument registers are unchanged.
C15_MakeState ==
    [][(pc = "rhs" /\ Opcode = MAKE_STATE /\ MakeD >= MakeK) =>
          /\ Len(state_stack') = MakeD - MakeK + 1
          /\ SubSeq(state_stack', 1, MakeD - MakeK) = SubSeq(state_stack, 1, MakeD - MakeK)
          /\ LET new == state_stack'[MakeD - MakeK + 1]
             IN  /\ new.address = next_u32(ip + 2)
                 /\ new.state_count = MakeK
                 /\ MakeK # 0 =>
                       heap'[new.states].states = SubSeq(state_stack, MakeD - MakeK + 1, MakeD)
                 /\ new.symbol_count = Len(symbol_stack)
                 /\ symbol_stack # <<>> => heap'[new.symbols].symbols = symbol_stack
          /\ symbol_stack' = <<>>
          /\ UNCHANGED <<tapeVars, regVars>>]_vars

\* MAKE_STATE 2 has run on the scratch <<s1, s2, s3>> with the symbols 'b' and
\* 0x161 pushed: s1 is below the new state, whose children are s2 and s3
C15_Witness ==
    /\ pc = "rhs"
    /\ bytes_start = "make"
    /\ Opcode = FINAL_STATE
    /\ Len(state_stack) = 2
    /\ state_stack[1].address = MakeHAddr
    /\ state_stack[2].address = MakeQAddr
    /\ state_stack[2].state_count = 2
    /\ heap[state_stack[2].states].states[1].address = MakeHAddr + 1
    /\ heap[state_stack[2].states].states[2].address = MakeHAddr + 2
    /\ heap[state_stack[2].symbols].symbols = <<98, 353>>
    /\ symbol_stack = <<>>

\* ------------------------------------------------------------------------
\* The layout of a state, decoded without the skip fields

ArmOpcodes == {COMPARE_ARG, COMPARE_VAL, OTHER_ARM, HALT}

\* the byte length of the RHS instruction at a
OpLen(a) ==
    CASE ByteAt(a) \in {LEFT, RIGHT, WRITE_BOUND, SYMBOL_BOUND} -> 1
      [] ByteAt(a) \in {LEFT_N, RIGHT_N, WRITE_ARG, SYMBOL_ARG, TAKE_ARG, CLONE_ARG,
                        FREE_ARG, FINAL_ARG} -> 2
      [] ByteAt(a) \in {WRITE_VAL, SYMBOL_VAL} -> 3
      [] ByteAt(a) = FINAL_STATE -> 5
      [] OTHER -> 6

\* the address right after the terminal of the RHS that starts at a
RECURSIVE RhsEnd(_)
RhsEnd(a) ==
    IF ByteAt(a) \in {FINAL_STATE, FINAL_ARG} THEN a + OpLen(a) ELSE RhsEnd(a + OpLen(a))

\* the first byte of the RHS of the arm whose header is at a
ArmRhs(a) ==
    CASE ByteAt(a) = COMPARE_ARG -> a + 4
      [] ByteAt(a) = COMPARE_VAL -> a + 5
      [] OTHER -> a + 1

\* whether the arm whose header is at a matches the symbol sym
ArmMatches(a, sym) ==
    CASE ByteAt(a) = COMPARE_ARG -> sym = symbols[ByteAt(a + 1)]
      [] ByteAt(a) = COMPARE_VAL -> sym = next_u16(a + 1)
      [] OTHER -> TRUE

\* the RHS of the first arm, in layout order from a, that matches sym; 0 (the
\* header, never an RHS) if a HALT comes first
RECURSIVE Selected(_, _)
Selected(a, sym) ==
    IF ByteAt(a) = HALT THEN 0
    ELSE IF ArmMatches(a, sym) THEN ArmRhs(a)
    ELSE Selected(RhsEnd(ArmRhs(a)), sym)

\* the symbol under the head, and whether the current address is that of a state
UnderHead == read_tape(tape, tape_head)
AtState == ByteAt(address) \in ArmOpcodes

\* C16: the RHS a move runs is that of the first arm of the current state, in
\* layout order, that matches the symbol under the head (COMPARE_ARG i against
\* symbol_args[i], COMPARE_VAL v against v, OTHER always, binding the symbol);
\* the move stops without an RHS exactly when HALT comes first; a missed COMPARE
\* arm advances exactly to the next arm header and changes neither tape, head,
\* registers, scratch stacks nor bound.
C16_ArmSelection ==
    /\ []((pc = "loop" /\ moves < max_moves) => ip = address)
    /\ [][(pc = "move" /\ pc' = "rhs" /\ AtState) =>
             /\ ip' = Selected(address, UnderHead)
             /\ Opcode = OTHER_ARM => bound' = UnderHead
             /\ Opcode # OTHER_ARM => bound' = bound
             /\ UNCHANGED <<tapeVars, regVars, stackVars>>]_vars
    /\ [][(pc = "move" /\ pc' = "returned" /\ AtState) =>
             /\ Selected(address, UnderHead) = 0
             /\ Opcode = HALT]_vars
    /\ [][(pc = "move" /\ pc' = "move" /\ Opcode \in {COMPARE_ARG, COMPARE_VAL}) =>
             /\ ~ArmMatches(ip, UnderHead)
             /\ ip' = RhsEnd(ArmRhs(ip))
             /\ ByteAt(ip') \in ArmOpcodes
             /\ UNCHANGED <<tapeVars, regVars, stackVars, bound>>]_vars

\* in the blank-write machine the COMPARE_VAL 'A' arm has missed and the RHS of
\* the COMPARE_ARG 0 arm that follows it is about to run
C16_Witness ==
    /\ pc = "rhs"
    /\ bytes_start = "blank"
    /\ address = BlankNextAddr
    /\ ip = BlankNextAddr + Len(ArmVal(65, <<RIGHT>> \o OpFinalState(0))) + 4
    /\ Opcode = WRITE_ARG

\* C17: at every entry to the RHS evaluator during a run both scratch stacks
\* are empty, and every terminal, FINAL_STATE and FINAL_ARG alike, leaves both
\* scratch stacks empty whatever the RHS pushed before it.
C17_ScratchEmpty ==
    /\ [][(pc = "move" /\ pc' = "rhs") =>
             (state_stack' = <<>> /\ symbol_stack' = <<>>)]_vars
    /\ [][(pc = "rhs" /\ Opcode \in {FINAL_STATE, FINAL_ARG}) =>
             (state_stack' = <<>> /\ symbol_stack' = <<>>)]_vars

\* ------------------------------------------------------------------------
\* State values in a heap h

\* the blocks a state reaches: its children array, its symbol list and, at every
\* depth, those of its children
RECURSIVE BlocksOf(_, _)
BlocksOf(h, st) ==
    (IF st.state_count # 0
     THEN {st.states} \cup UNION {BlocksOf(h, h[st.states].states[k]) : k \in 1..st.state_count}
     ELSE {})
    \cup (IF st.symbol_count # 0 THEN {st.symbols} ELSE {})

\* the value a state denotes: address, symbols in order, children in order
RECURSIVE ValueOf(_, _)
ValueOf(h, st) ==
    [address |-> st.address,
     symbols |-> IF st.symbol_count # 0
                 THEN SubSeq(h[st.symbols].symbols, 1, st.symbol_count)
                 ELSE <<>>,
     children |-> IF st.state_count # 0
                  THEN [k \in 1..st.state_count |-> ValueOf(h, h[st.states].states[k])]
                  ELSE <<>>]

\* every block the state reaches is allocated and not freed
Intact(h, st) == \A b \in BlocksOf(h, st) : b \in 1..Len(h) /\ h[b].live

\* the argument CLONE_ARG is about to clone, the memory after it ran and the
\* state it pushed
CloneOf == states[ByteAt(ip + 1)]
AfterClone == [heap |-> heap', error |-> heap_error']
Pushed == state_stack'[Len(state_stack')]

\* C18: CLONE_ARG i pushes a deep copy of state_args[i]: same address, same
\* symbols and recursively equal children at every depth, in blocks of its own;
\* state_args[i] is unchanged, and freeing the clone or the original afterwards
\* leaves the other intact with the same value.
C18_CloneDeep ==
    [][(pc = "rhs" /\ Opcode = CLONE_ARG) =>
          /\ state_stack' = Append(state_stack, Pushed)
          /\ ValueOf(heap', Pushed) = ValueOf(heap, CloneOf)
          /\ BlocksOf(heap', Pushed) \cap BlocksOf(heap', CloneOf) = {}
          /\ states' = states
          /\ ValueOf(heap', CloneOf) = ValueOf(heap, CloneOf)
          /\ Intact(heap', Pushed) /\ Intact(heap', CloneOf)
          /\ LET M == free_state(AfterClone, Pushed)
             IN  /\ M.error = "none"
                 /\ Intact(M.heap, CloneOf)
                 /\ ValueOf(M.heap, CloneOf) = ValueOf(heap, CloneOf)
          /\ LET M == free_state(AfterClone, CloneOf)
             IN  /\ M.error = "none"
                 /\ Intact(M.heap, Pushed)
                 /\ ValueOf(M.heap, Pushed) = ValueOf(heap, CloneOf)]_vars

\* in the nested-state machine, b has destroyed the original w(t(; 0x161, bound))
\* with FREE_ARG 1 and is about to enter its clone, which is intact
C18_Witness ==
    /\ pc = "rhs"
    /\ bytes_start = "nest"
    /\ address = NestBAddr
    /\ Opcode = FINAL_ARG
    /\ states[1].state_count = 1
    /\ ~heap[states[1].states].live
    /\ states[0].states # states[1].states
    /\ Intact(heap, states[0])
    /\ ValueOf(heap, states[0]).children[1].symbols[1] = 353

\* the operand n of the RIGHT / RIGHT_N about to execute
RightOperand == IF Opcode = RIGHT THEN 1 ELSE ByteAt(ip + 1)

AtRight == pc = "rhs" /\ Opcode \in {RIGHT, RIGHT_N}

\* C19: RIGHT and RIGHT_N n never fail and only move the head: afterwards the
\* head is at old head + n and the RHS goes on, while the tape, its length, the
\* heap, the registers and the scratch stacks are unchanged, also when the head
\* ends at or beyond the tape length; the tape length changes during run only
\* in a write of a non-blank value past the end, never in a move of the head or
\* in a read.
C19_RightOnlyMoves ==
    /\ [][AtRight =>
             /\ tape_head' = tape_head + RightOperand
             /\ pc' = "rhs"
             /\ moves' = moves
             /\ UNCHANGED <<tape, tape_block, heapVars, regVars, stackVars, bound>>]_vars
    /\ [][(InRun /\ Len(tape') # Len(tape)) =>
             (AtWrite /\ WriteOperand # 0 /\ PastEnd)]_vars

\* RIGHT_N 200 has moved the head from 100 to 300, beyond the 256 cells of the
\* tape, which is as init_tape left it
C19_Witness ==
    /\ pc = "rhs"
    /\ bytes_start = "blank"
    /\ input.symbols = <<>>
    /\ moves = 0
    /\ tape_head = 300
    /\ tape = init_tape(<<>>)
    /\ Opcode = WRITE_VAL

\* C20: a move that ends at a HALT arm (the loop test, missed arms, then HALT)
\* changes neither the tape, its length, the head, the current address, the
\* argument registers, the scratch stacks nor the move count; the address only
\* changes in a terminal, so after a HALT it is the one the last terminal
\* installed, or the entry address if no move completed.
C20_HaltFrame ==
    /\ [][(pc \in {"loop", "move"} /\ pc' \in {"move", "returned"}) =>
             UNCHANGED <<tapeVars, regVars, stackVars, moves, heapVars>>]_vars
    /\ [][(InRun /\ address' # address) =>
             (pc = "rhs" /\ Opcode \in {FINAL_STATE, FINAL_ARG})]_vars
    /\ []((Returned /\ cause = "halt" /\ moves = 0) => address = next_u32(2))

\* the OTHER-arm alternating machine has missed both arms of F and stopped at
\* its HALT: the address is the one FINAL_STATE installed in the first move
C20_Witness ==
    /\ pc = "returned"
    /\ cause = "halt"
    /\ bytes_start = "alt"
    /\ address = AltFAddr
    /\ ip = Len(AltMachine)
    /\ moves = 1
    /\ tape_head = 1

\* run has just returned because of a left-boundary STOP in the first run of program p
LeftStop(p) == pc = "returned" /\ cause = "left" /\ bytes_start = p /\ runs = 1

\* C21: a move aborted by a left-boundary STOP is not rolled back.  No step of a
\* move but a terminal changes address, state_count or symbol_count, so they are
\* as at the start of the move; the STOP itself puts the head at 0 and leaves
\* the tape, the registers and the scratch stacks as the earlier opcodes of the
\* RHS made them: cells written stay written and pushed values stay pushed when
\* run returns.
C21_NoRollback ==
    /\ [][(pc \in {"move", "rhs"} /\ pc' # "loop") =>
             UNCHANGED <<address, state_count, symbol_count>>]_vars
    /\ [][(pc = "rhs" /\ pc' = "returned") =>
             /\ tape_head' = 0
             /\ UNCHANGED <<tape, regVars, stackVars, moves>>]_vars
    /\ [](LeftStop("leftn") =>
             /\ Cell(3) = 65
             /\ tape_head = 0
             /\ address = Entry
             /\ moves = 0)
    /\ [](LeftStop("junk") =>
             /\ Cell(0) = 97
             /\ symbol_stack = <<98>>
             /\ address = JunkAAddr
             /\ symbol_count = 1
             /\ moves = 1)
    /\ []((LeftStop("stop") /\ input.symbols = <<>>) =>
             /\ Len(state_stack) = 1
             /\ state_stack[1].address = StopHAddr
             /\ state_stack[1].state_count = 1
             /\ address = StopAAddr
             /\ state_count = 1
             /\ symbol_count = 0)

\* the first run of the junk machine has returned from the LEFT that underran:
\* the 'a' written and the 'b' pushed earlier in that RHS are still there
C21_Witness ==
    /\ LeftStop("junk")
    /\ tape_head = 0
    /\ Cell(0) = 97
    /\ symbol_stack = <<98>>
    /\ address = JunkAAddr

====
